---------------------------- MODULE Spec2Model ----------------------------
(***************************************************************************)
(* Model of topoplot_tools.py (plot_in_topoplot and its helpers) and of    *)
(* the way main.py calls it.                                               *)
(*                                                                         *)
(* Numbers.  The code computes in IEEE doubles.  Every double the model    *)
(* meets is an integer plus a residue far below one pixel, so a double is  *)
(* the record [n |-> integer part, e |-> residue], the residue counted in  *)
(* units of 1e-20.  cos and sin are tabulated at the multiples of 90       *)
(* degrees with the values the doubles have there: cos(pi/2) is            *)
(* 6.123e-17 and sin(pi) is 1.2246e-16, not 0.                             *)
(***************************************************************************)
EXTENDS Integers, Sequences, FiniteSets, TLC

\* ------------------------------------------------------------------ bounds
MaxRows == 2
MaxImages == 2
MaxRadius == 3

\* --------------------------------------------------------- double arithmetic
Fl(n, e) == [n |-> n, e |-> e]

Abs(x) == IF x < 0 THEN -x ELSE x

Min(a, b) == IF a < b THEN a ELSE b

Max(a, b) == IF a < b THEN b ELSE a

RECURSIVE Pow2Floor(_)
\* the largest power of two that is <= x, for x >= 1
Pow2Floor(x) == IF x < 2 THEN 1 ELSE 2 * Pow2Floor(x \div 2)

\* the unit in the last place of a double of magnitude x >= 1, in residue
\* units: 2^-52 is 2.2204e-16
Ulp(x) == 22204 * Pow2Floor(x)

\* the residue e rounded to the nearest multiple of the spacing u
RoundTo(e, u) == ((2 * e + u) \div (2 * u)) * u

\* the spacing of the doubles around s + (a residue of the sign of e): just
\* below a power of two they are twice as dense
Spacing(s, e) ==
    IF e < 0 /\ Pow2Floor(s) = s THEN Ulp(s) \div 2 ELSE Ulp(s)

\* a * b in doubles; the product of two residues is below the resolution
Mul(a, b) == Fl(a.n * b.n, a.n * b.e + a.e * b.n)

\* c + v in doubles, c an integer: an integer sum is exact, a residue is
\* rounded to the spacing of the doubles around the sum
AddInt(c, v) ==
    LET s == c + v.n
    IN  IF v.e = 0 \/ s = 0 THEN Fl(s, v.e)
        ELSE IF s > 0 THEN Fl(s, RoundTo(v.e, Spacing(s, v.e)))
        ELSE Fl(s, -RoundTo(-v.e, Spacing(-s, -v.e)))

\* ndarray.astype(int): truncation toward zero
TruncInt(v) ==
    IF v.n > 0 /\ v.e < 0 THEN v.n - 1
    ELSE IF v.n < 0 /\ v.e > 0 THEN v.n + 1
    ELSE v.n

\* np.cos(a * np.pi / 180) for a a multiple of 90 degrees
CosDeg(a) ==
    CASE a = 0 -> Fl(1, 0)
      [] a = 90 \/ a = -90 -> Fl(0, 6123)
      [] a = 180 \/ a = -180 -> Fl(-1, 0)
      [] a = 270 \/ a = -270 -> Fl(0, -18370)

\* np.sin(a * np.pi / 180) for a a multiple of 90 degrees
SinDeg(a) ==
    CASE a = 0 -> Fl(0, 0)
      [] a = 90 -> Fl(1, 0)
      [] a = -90 -> Fl(-1, 0)
      [] a = 180 -> Fl(0, 12246)
      [] a = -180 -> Fl(0, -12246)
      [] a = 270 -> Fl(-1, 0)
      [] a = -270 -> Fl(1, 0)

\* the angles the tables cover, as the first element of theta_radius
Angles == {-180, -90, 0, 90, 180, 270, 360}

\* np.arctan2(a, b) * 180 / np.pi for a point on an axis (a = 0 or b = 0)
ArcTan2Deg(a, b) ==
    CASE a = 0 /\ b >= 0 -> 0
      [] a = 0 /\ b < 0 -> 180
      [] a > 0 /\ b = 0 -> 90
      [] a < 0 /\ b = 0 -> -90

\* np.sqrt of a perfect square
Sqrt(x) == CHOOSE s \in 0..x : s * s = x

\* ------------------------------------------------------------- pol2cart
pol2cart_swapped(theta_radius, centerxy) ==
    <<AddInt(centerxy[1], Mul(theta_radius[2], SinDeg(theta_radius[1] - 90))),
      AddInt(centerxy[2], Mul(theta_radius[2], CosDeg(theta_radius[1] - 90)))>>

\* theta_radius = <<theta in degrees, radius as a double>>, centerxy integers
pol2cart(theta_radius, centerxy) ==
    <<AddInt(centerxy[1], Mul(theta_radius[2], CosDeg(theta_radius[1] - 90))),
      AddInt(centerxy[2], Mul(theta_radius[2], SinDeg(theta_radius[1] - 90)))>>

\* ------------------------------------------------------------- the inputs
\* main.py: head_radius = 1000; 3 is a small odd radius
HeadRadii == {3, 1000}

\* main.py calls with xyz_format '', 'default' and 'EEGLab'
XyzFormats == {"", "default", "EEGLab"}

\* crop_images: [] (the default) or main.py's [0, 200, 0, 0] (L U R D)
Crops == {<<>>, <<0, 200, 0, 0>>}

\* scale_images in tenths: 1 (the default) and main.py's 0.8
Scales == {10, 8}

\* the header rows of the position files, and the rows under each
HeaderRows ==
    { <<"sph_theta", "sph_phi">>, <<"sph_theta", "sph_phi", "sph_radius">>,
      <<"X", "Y", "Z">>, <<"X", "Y">> }

RowsOf(headers) ==
    CASE headers = <<"sph_theta", "sph_phi">> -> {<<0, 0>>, <<180, 0>>, <<0, 90>>}
      [] headers = <<"sph_theta", "sph_phi", "sph_radius">> ->
             {<<0, 0, 1>>, <<180, 0, 2>>}
      [] headers = <<"X", "Y", "Z">> -> {<<0, 1, 0>>, <<1, 0, 0>>, <<0, 0, 1>>}
      [] headers = <<"X", "Y">> -> {<<0, 1>>}

SeqsUpTo(S, n) == UNION {[1..k -> S] : k \in 0..n}

\* kind: "garbled" (csv.Sniffer finds no delimiter), "headerless"
\* (has_header() answers False) or "table" (a header row and MaxRows rows
\* at most)
PositionFiles ==
    { [kind |-> k, headers |-> <<>>, rows |-> <<>>] : k \in {"garbled", "headerless"} }
    \cup
    UNION { { [kind |-> "table", headers |-> h, rows |-> r] :
                  r \in SeqsUpTo(RowsOf(h), MaxRows) } : h \in HeaderRows }

\* what Image.open finds at a path: no decodable image, or one of a size
ImageFiles ==
    { [ok |-> FALSE, size |-> <<0, 0>>], [ok |-> TRUE, size |-> <<1, 1>>],
      [ok |-> TRUE, size |-> <<100, 200>>], [ok |-> TRUE, size |-> <<100, 300>>] }

\* ------------------------------------------------------- read_csv_position
HeaderSet(headers) == {headers[i] : i \in 1..Len(headers)}

HeaderIndex(headers, name) == CHOOSE i \in 1..Len(headers) : headers[i] = name

\* one row as a dictionary keyed by the header names
RowDict(headers, row) ==
    [h \in HeaderSet(headers) |-> row[HeaderIndex(headers, h)]]

\* d[key] = value
SetItem(d, key, value) == (key :> value) @@ d

IsSpherical(d) == "sph_phi" \in DOMAIN d /\ "sph_theta" \in DOMAIN d

IsCartesian(d) == "X" \in DOMAIN d /\ "Y" \in DOMAIN d /\ "Z" \in DOMAIN d

DefaultRadiusFirstOnly(info_electrodes) ==
    IF "sph_radius" \in DOMAIN info_electrodes[1] THEN info_electrodes
    ELSE [k \in 1..Len(info_electrodes) |->
             IF k = 1 THEN SetItem(info_electrodes[k], "sph_radius", 1)
             ELSE info_electrodes[k]]

\* if not 'sph_radius' in info_electrodes[0]: every record gets radius 1
DefaultRadius(info_electrodes) ==
    IF "sph_radius" \in DOMAIN info_electrodes[1] THEN info_electrodes
    ELSE [k \in 1..Len(info_electrodes) |->
             SetItem(info_electrodes[k], "sph_radius", 1)]

\* X, Y, Z to geographic coordinates
CartesianToSpherical(d, xyz_format) ==
    LET x == d["X"]
        y == d["Y"]
        z == d["Z"]
        r_xy == Sqrt(x * x + y * y)
        d1 == IF xyz_format = "default"
                THEN SetItem(d, "sph_theta", ArcTan2Deg(x, y))
              ELSE IF xyz_format = "EEGLab"
                THEN SetItem(d, "sph_theta", ArcTan2Deg(y, x))
              ELSE d
        d2 == SetItem(d1, "sph_phi", ArcTan2Deg(z, r_xy))
    IN  SetItem(d2, "sph_radius", 1)

\* The call as a whole.  result: "list" (info_electrodes returned), "None"
\* (the function returned without a value) or "raise" (error names the
\* exception).  unclosed: the file object of open(filename, 'r') in "read
\* headers", which the function never closes.
read_csv_position(file, xyz_format) ==
    LET rows == [k \in 1..Len(file.rows) |-> RowDict(file.headers, file.rows[k])]
        out(result, error, info, unclosed) ==
            [result |-> result, error |-> error, info_electrodes |-> info,
             unclosed |-> unclosed]
    IN  IF file.kind = "garbled" THEN out("raise", "csv.Error", <<>>, {})
        ELSE IF file.kind = "headerless" THEN out("None", "", <<>>, {})
        ELSE IF rows = <<>> THEN out("raise", "IndexError", <<>>, {"position"})
        ELSE IF IsSpherical(rows[1])
            THEN out("list", "", DefaultRadius(rows), {"position"})
        ELSE IF IsCartesian(rows[1])
            THEN out("list", "",
                     [k \in 1..Len(rows) |-> CartesianToSpherical(rows[k], xyz_format)],
                     {"position"})
        ELSE out("None", "", <<>>, {"position"})

\* ------------------------------------------------------------ the drawing
linewidth == 5

MarkerRadius == 10

Black == "black"

Transparent == "transparent"

\* canvas_size = np.array([2.5 * h, 2.5 * h]).astype(int)
CanvasSize(head_radius_pxs) ==
    <<(5 * head_radius_pxs) \div 2, (5 * head_radius_pxs) \div 2>>

\* canvas_center = (0.5 * canvas_size).astype(int)
CanvasCenter(canvas_size) == <<canvas_size[1] \div 2, canvas_size[2] \div 2>>

\* one ellipse on the image: corners = centerxy - radius, centerxy + radius
draw_circle_center(centerxy, radius, fill_color) ==
    [corners |-> <<AddInt(-radius, centerxy[1]), AddInt(-radius, centerxy[2]),
                   AddInt(radius, centerxy[1]), AddInt(radius, centerxy[2])>>,
     fill |-> fill_color]

\* a solid disk and, inside it, a transparent one
draw_circle_thick(centerxy, radius, thickness) ==
    << draw_circle_center(centerxy, radius, Black),
       draw_circle_center(centerxy, radius - thickness, Transparent) >>

IntPoint(xy) == <<Fl(xy[1], 0), Fl(xy[2], 0)>>

\* The control points of the nose, <<angle in degrees, radius in pixels>>,
\* after .astype(int).  The lines of nose and ears are kept by their polar
\* control points: their angles are outside the cos and sin tables.
NosePoints(head_radius_pxs) ==
    << <<-10, head_radius_pxs - linewidth>>,
       <<0, (12 * head_radius_pxs) \div 10>>,
       <<10, head_radius_pxs - linewidth>> >>

\* r and t of the ears, in hundredths
EarR == <<50, 52, 53, 54, 55, 54, 55, 54, 52, 50>>

EarT == <<19, 22, 22, 21, 17, -1, -16, -24, -26, -24>>

\* <<side, t in hundredths of a radian before "+ 90", r in hundredths of a
\* pixel>> of ear point i
EarPoint(side, i, head_radius_pxs) ==
    <<side, EarT[i], head_radius_pxs * EarR[i] * 2>>

Segments(points) ==
    [i \in 1..(Len(points) - 1) |->
        [ini |-> points[i], fin |-> points[i + 1], width |-> linewidth]]

HeadLines(head_radius_pxs) ==
    Segments(NosePoints(head_radius_pxs))
    \o Segments([i \in 1..Len(EarR) |-> EarPoint(1, i, head_radius_pxs)])
    \o Segments([i \in 1..Len(EarR) |-> EarPoint(-1, i, head_radius_pxs)])

\* does the record have what the marker and image loops read
HasAngles(d) ==
    /\ "sph_theta" \in DOMAIN d
    /\ "sph_radius" \in DOMAIN d
    /\ "sph_phi" \in DOMAIN d

\* point_cart of one electrode
ElectrodePoint(d, head_radius_pxs, canvas_center) ==
    pol2cart(<<d["sph_theta"],
               Mul(Fl(head_radius_pxs * d["sph_radius"], 0), CosDeg(d["sph_phi"]))>>,
             canvas_center)

IsIterableLenient(result) == TRUE

\* "for info_electrode in info_electrodes" raises TypeError on None
IsIterable(result) == result = "list"

ZipLenOfFirst(a, b) == Len(a)

\* the number of pairs of zip(a, b)
ZipLen(a, b) == Min(Len(a), Len(b))

\* crop_box of line 265
CropBox(crop_images, size_im) ==
    <<0 + crop_images[1], 0 + crop_images[2],
      size_im[1] - crop_images[3], size_im[2] - crop_images[4]>>

\* the size Image.crop gives: a side of negative length is clamped to 0
CroppedSize(crop_box) ==
    <<Max(crop_box[3] - crop_box[1], 0), Max(crop_box[4] - crop_box[2], 0)>>

\* a crop box Image.crop of a recent Pillow refuses with ValueError (right
\* less than left, or lower less than upper); an older Pillow clamps
IsInverted(crop_box) == crop_box[3] < crop_box[1] \/ crop_box[4] < crop_box[2]

\* (int(w * scale_images), int(h * scale_images)), scale_images in tenths
ScaledSize(size, scale_images) ==
    <<(size[1] * scale_images) \div 10, (size[2] * scale_images) \div 10>>

draw_paste_uncentred(size_tmp, point_cart) ==
    <<TruncInt(point_cart[1]) - size_tmp[1],
      TruncInt(point_cart[2]) - size_tmp[2],
      TruncInt(point_cart[1]) - size_tmp[1] + size_tmp[1],
      TruncInt(point_cart[2]) - size_tmp[2] + size_tmp[2]>>

\* the box im.paste is given
draw_paste(size_tmp, point_cart) ==
    <<TruncInt(point_cart[1]) - size_tmp[1] \div 2,
      TruncInt(point_cart[2]) - size_tmp[2] \div 2,
      TruncInt(point_cart[1]) - size_tmp[1] \div 2 + size_tmp[1],
      TruncInt(point_cart[2]) - size_tmp[2] \div 2 + size_tmp[2]>>

\* ---------------------------------------------------------------- the state
VARIABLES
    head_radius_pxs,   \* the arguments of plot_in_topoplot
    position_file,
    image_filenames,
    xyz_format,
    scale_images,
    crop_images,
    stage,             \* where the call is
    result,            \* what read_csv_position gave: "", "list", "None"
    info_electrodes,
    canvas_size,
    canvas_center,
    im,                \* the image: circles, lines, markers, pastes
    markers_drawn,     \* the first loop over info_electrodes is over
    crop_boxes,        \* size_im and crop_box of each image cropped so far
    error,             \* the exception that ended the call, "" for none
    failed_stage,      \* the stage that raised it
    output_file,       \* whether im.save wrote the file, and the image in it
    open_files,        \* the file objects that are open
    theta_radius,      \* the arguments and the value of one pol2cart call
    centerxy,
    xy

args == <<head_radius_pxs, position_file, image_filenames, xyz_format,
          scale_images, crop_images>>

call == <<theta_radius, centerxy, xy>>

vars == <<head_radius_pxs, position_file, image_filenames, xyz_format,
          scale_images, crop_images, stage, result, info_electrodes,
          canvas_size, canvas_center, im, markers_drawn, crop_boxes, error,
          failed_stage, output_file, open_files, theta_radius, centerxy, xy>>

Stages == <<"ParsePositions", "AllocateCanvas", "RenderHeadLandmarks",
            "DrawMarkersAndImages", "PersistOutput", "Done">>

NoImage == [circles |-> <<>>, lines |-> <<>>, markers |-> <<>>, pastes |-> <<>>]

NoCall == <<0, Fl(0, 0)>>

NoOutput == [written |-> FALSE, image |-> NoImage]

InitRun ==
    /\ stage = "ParsePositions"
    /\ result = ""
    /\ info_electrodes = <<>>
    /\ canvas_size = <<0, 0>>
    /\ canvas_center = <<0, 0>>
    /\ im = NoImage
    /\ markers_drawn = FALSE
    /\ crop_boxes = <<>>
    /\ error = ""
    /\ failed_stage = ""
    /\ output_file = NoOutput
    /\ open_files = {}

Init ==
    /\ head_radius_pxs \in HeadRadii
    /\ position_file \in PositionFiles
    /\ image_filenames \in {[i \in 1..n |-> i] : n \in 0..MaxImages}
    /\ xyz_format \in XyzFormats
    /\ scale_images \in Scales
    /\ crop_images \in Crops
    /\ InitRun
    /\ theta_radius = NoCall
    /\ centerxy = <<0, 0>>
    /\ xy = <<>>

\* an exception leaves plot_in_topoplot: nothing after it runs
Raise(exception) ==
    /\ error' = exception
    /\ failed_stage' = stage
    /\ stage' = "Aborted"

NoRaise == UNCHANGED <<error, failed_stage>>

\* info_electrodes = read_csv_position(position_filename, xyz_format).
\* The file object the function leaves unclosed goes with its last
\* reference: at the return under reference counting (collected), whenever
\* the collector runs otherwise; an exception's traceback keeps it.
ParsePositions ==
    /\ stage = "ParsePositions"
    /\ LET r == read_csv_position(position_file, xyz_format)
       IN  /\ result' = IF r.result = "raise" THEN result ELSE r.result
           /\ info_electrodes' = r.info_electrodes
           /\ IF r.result = "raise"
                THEN /\ Raise(r.error)
                     /\ open_files' = open_files \cup r.unclosed
                ELSE /\ NoRaise
                     /\ stage' = "AllocateCanvas"
                     /\ \E collected \in BOOLEAN :
                            open_files' = IF collected THEN open_files
                                          ELSE open_files \cup r.unclosed
    /\ UNCHANGED <<args, call, canvas_size, canvas_center, im, markers_drawn,
                   crop_boxes, output_file>>

\* canvas properties, and the new image full of transparent white
AllocateCanvas ==
    /\ stage = "AllocateCanvas"
    /\ canvas_size' = CanvasSize(head_radius_pxs)
    /\ canvas_center' = CanvasCenter(CanvasSize(head_radius_pxs))
    /\ im' = NoImage
    /\ stage' = "RenderHeadLandmarks"
    /\ NoRaise
    /\ UNCHANGED <<args, call, result, info_electrodes, markers_drawn,
                   crop_boxes, output_file, open_files>>

\* draw head with nose and ears
RenderHeadLandmarks ==
    /\ stage = "RenderHeadLandmarks"
    /\ im' = [im EXCEPT
                !.circles = draw_circle_thick(IntPoint(canvas_center),
                                              head_radius_pxs, linewidth),
                !.lines = HeadLines(head_radius_pxs)]
    /\ stage' = "DrawMarkersAndImages"
    /\ NoRaise
    /\ UNCHANGED <<args, call, result, info_electrodes, canvas_size,
                   canvas_center, markers_drawn, crop_boxes, output_file,
                   open_files>>

\* the stage after the loops: the second loop has no pair left
AfterLoops(n_pasted) ==
    IF n_pasted >= ZipLen(info_electrodes, image_filenames)
    THEN "PersistOutput" ELSE "DrawMarkersAndImages"

\* draw points for each electrode location: the first loop, whole
DrawMarkers ==
    /\ stage = "DrawMarkersAndImages"
    /\ ~markers_drawn
    /\ IF ~IsIterable(result) THEN
            /\ Raise("TypeError")
            /\ UNCHANGED <<im, markers_drawn>>
       ELSE IF \E k \in 1..Len(info_electrodes) : ~HasAngles(info_electrodes[k]) THEN
            /\ Raise("KeyError")
            /\ UNCHANGED <<im, markers_drawn>>
       ELSE /\ im' = [im EXCEPT !.markers =
                        [k \in 1..Len(info_electrodes) |->
                            draw_circle_center(
                                ElectrodePoint(info_electrodes[k], head_radius_pxs,
                                               canvas_center),
                                MarkerRadius, Black)]]
            /\ markers_drawn' = TRUE
            /\ stage' = AfterLoops(0)
            /\ NoRaise
    /\ UNCHANGED <<args, call, result, info_electrodes, canvas_size,
                   canvas_center, crop_boxes, output_file, open_files>>

\* One pair of the second loop: load, crop, scale, paste.  image is what
\* the path holds, strict whether this Pillow refuses an inverted crop box.
\* The file Image.open opened is closed by the first operation that loads
\* the pixels; a crop box refused before that leaves it open.
PasteImage ==
    /\ stage = "DrawMarkersAndImages"
    /\ markers_drawn
    /\ LET k == Len(im.pastes) + 1
       IN  IF k > Len(image_filenames) THEN
                /\ Raise("IndexError")
                /\ UNCHANGED <<im, crop_boxes, open_files>>
           ELSE \E image \in ImageFiles, strict \in BOOLEAN :
                LET point_cart == ElectrodePoint(info_electrodes[k], head_radius_pxs,
                                                 canvas_center)
                    size_im == image.size
                    crop_box == IF crop_images # <<>>
                                THEN CropBox(crop_images, size_im)
                                ELSE <<0, 0, size_im[1], size_im[2]>>
                    cropped == CroppedSize(crop_box)
                    scaled == IF scale_images # 10
                              THEN ScaledSize(cropped, scale_images)
                              ELSE cropped
                IN  IF ~image.ok THEN
                         /\ Raise("OSError")
                         /\ UNCHANGED <<im, crop_boxes, open_files>>
                    ELSE IF crop_images # <<>> /\ IsInverted(crop_box) /\ strict THEN
                         /\ Raise("ValueError")
                         /\ crop_boxes' = Append(crop_boxes, [size_im |-> size_im, crop_box |-> crop_box])
                         /\ open_files' = open_files \cup {"image"}
                         /\ UNCHANGED im
                    ELSE IF scaled # cropped /\ (scaled[1] < 1 \/ scaled[2] < 1) THEN
                         /\ Raise("ValueError")
                         /\ crop_boxes' = IF crop_images # <<>>
                                          THEN Append(crop_boxes, [size_im |-> size_im, crop_box |-> crop_box])
                                          ELSE crop_boxes
                         /\ UNCHANGED <<im, open_files>>
                    ELSE /\ im' = [im EXCEPT !.pastes = Append(@,
                                     [electrode |-> k, image |-> image_filenames[k],
                                      size |-> scaled, point_cart |-> point_cart,
                                      box |-> draw_paste(scaled, point_cart)])]
                         /\ crop_boxes' = IF crop_images # <<>>
                                          THEN Append(crop_boxes, [size_im |-> size_im, crop_box |-> crop_box])
                                          ELSE crop_boxes
                         /\ stage' = AfterLoops(k)
                         /\ NoRaise
                         /\ UNCHANGED open_files
    /\ UNCHANGED <<args, call, result, info_electrodes, canvas_size,
                   canvas_center, markers_drawn, output_file>>

\* im.save(output_filename), and the return; writable: the path can be
\* opened for writing
PersistOutput ==
    /\ stage = "PersistOutput"
    /\ \E writable \in BOOLEAN :
          IF writable
          THEN /\ output_file' = [written |-> TRUE, image |-> im]
               /\ stage' = "Done"
               /\ NoRaise
          ELSE /\ Raise("OSError")
               /\ UNCHANGED output_file
    /\ UNCHANGED <<args, call, result, info_electrodes, canvas_size,
                   canvas_center, im, markers_drawn, crop_boxes, open_files>>

\* the interpreter's collector closes a file object nothing refers to
Finalize ==
    /\ \E f \in open_files : open_files' = open_files \ {f}
    /\ UNCHANGED <<args, call, stage, result, info_electrodes, canvas_size,
                   canvas_center, im, markers_drawn, crop_boxes, error,
                   failed_stage, output_file>>

Next ==
    \/ ParsePositions
    \/ AllocateCanvas
    \/ RenderHeadLandmarks
    \/ DrawMarkers
    \/ PasteImage
    \/ PersistOutput
    \/ Finalize

Spec == Init /\ [][Next]_vars

\* ------------------------------------------------- pol2cart on its own
Centers == {0, 1, 1250}

InitProject ==
    /\ head_radius_pxs = 1000
    /\ position_file = [kind |-> "headerless", headers |-> <<>>, rows |-> <<>>]
    /\ image_filenames = <<>>
    /\ xyz_format = ""
    /\ scale_images = 10
    /\ crop_images = <<>>
    /\ InitRun
    /\ theta_radius \in {<<a, Fl(r, 0)>> : a \in Angles, r \in 0..MaxRadius}
    /\ centerxy \in Centers \X Centers
    /\ xy = <<>>

\* one call of pol2cart
Project ==
    /\ xy = <<>>
    /\ xy' = pol2cart(theta_radius, centerxy)
    /\ UNCHANGED <<args, theta_radius, centerxy, stage, result, info_electrodes,
                   canvas_size, canvas_center, im, markers_drawn, crop_boxes,
                   error, failed_stage, output_file, open_files>>

SpecProject == InitProject /\ [][Project]_vars

\* ================================================================ claims

\* C1: the stages follow one another in the order ParsePositions,
\* AllocateCanvas, RenderHeadLandmarks, DrawMarkersAndImages, PersistOutput,
\* Done, a stage is left only for the next one or because an exception ended
\* the run, the output file is written only when every earlier stage has
\* completed (the positions parsed to a list, the canvas allocated, the head
\* drawn, every marker and every pair of the zip drawn), and a run that
\* aborted has written no output file and stays aborted.
C1_StageOrder ==
    /\ [][stage' # stage =>
            \/ stage' = "Aborted" /\ error' # "" /\ stage \notin {"Done", "Aborted"}
            \/ \E i \in 1..(Len(Stages) - 1) :
                   stage = Stages[i] /\ stage' = Stages[i + 1] /\ error' = ""]_vars
    /\ [](output_file.written =>
            /\ stage = "Done"
            /\ error = ""
            /\ result = "list"
            /\ canvas_size = <<(5 * head_radius_pxs) \div 2, (5 * head_radius_pxs) \div 2>>
            /\ Len(im.circles) = 2
            /\ Len(im.lines) = 20
            /\ Len(im.markers) = Len(position_file.rows)
            /\ Len(im.pastes) = Min(Len(position_file.rows), Len(image_filenames))
            /\ output_file.image = im)
    /\ [](stage = "Aborted" => ~output_file.written /\ error # "")
    /\ [](stage = "Done" => output_file.written)

C1_Witness ==
    /\ stage = "Done"
    /\ output_file.written
    /\ Len(im.markers) = 2
    /\ Len(im.pastes) = 2

\* C2: once a position file without a header row has been parsed, the run
\* has ended with an exception raised by the parsing stage (the FormatError
\* of the specification, whatever the code names it), and no output file is
\* written.
C2_NoHeaderRaisesFormatError ==
    (position_file.kind = "headerless" /\ stage # "ParsePositions") =>
        /\ stage = "Aborted"
        /\ error # ""
        /\ failed_stage = "ParsePositions"
        /\ result = ""
        /\ ~output_file.written

\* the first record of the file has neither sph_theta and sph_phi nor X, Y
\* and Z
UnsupportedSchema ==
    /\ position_file.kind = "table"
    /\ position_file.rows # <<>>
    /\ ~({"sph_theta", "sph_phi"} \subseteq
            {position_file.headers[i] : i \in 1..Len(position_file.headers)})
    /\ ~({"X", "Y", "Z"} \subseteq
            {position_file.headers[i] : i \in 1..Len(position_file.headers)})

\* C3: once a position file whose first record has no recognized coordinate
\* columns has been parsed, the run has ended with an exception raised by
\* the parsing stage (the FormatError of the specification, whatever the code
\* names it), no result was returned, and no output file is written.
C3_UnsupportedSchemaRaisesFormatError ==
    (UnsupportedSchema /\ stage # "ParsePositions") =>
        /\ stage = "Aborted"
        /\ error # ""
        /\ failed_stage = "ParsePositions"
        /\ result = ""
        /\ ~output_file.written

\* C4: one record per file row, in row order; once the first loop is over
\* there is a marker for every location; the k-th paste is the k-th image
\* at the k-th location; when the loops are over exactly the first
\* min(locations, images) locations have an image; and no IndexError comes
\* out of the loops, whatever the two lengths.
C4_MarkersAndZip ==
    /\ result = "list" => Len(info_electrodes) = Len(position_file.rows)
    /\ markers_drawn => Len(im.markers) = Len(position_file.rows)
    /\ \A k \in 1..Len(im.pastes) :
          /\ k <= Len(position_file.rows)
          /\ k <= Len(image_filenames)
          /\ im.pastes[k].electrode = k
          /\ im.pastes[k].image = image_filenames[k]
          /\ im.markers[k].corners[1] = AddInt(-10, im.pastes[k].point_cart[1])
          /\ im.markers[k].corners[2] = AddInt(-10, im.pastes[k].point_cart[2])
    /\ stage \in {"PersistOutput", "Done"} =>
          /\ Len(im.markers) = Len(position_file.rows)
          /\ Len(im.pastes) =
                IF Len(position_file.rows) < Len(image_filenames)
                THEN Len(position_file.rows) ELSE Len(image_filenames)
    /\ failed_stage = "DrawMarkersAndImages" => error # "IndexError"

C4_Witness ==
    /\ stage = "Done"
    /\ Len(position_file.rows) = 2
    /\ Len(image_filenames) = 1
    /\ Len(im.markers) = 2
    /\ Len(im.pastes) = 1

\* C5: of a file with sph_theta and sph_phi columns, every record returned
\* has radius 1 when there is no sph_radius column, and the radius of its
\* own row when there is one.
C5_SphericalRadius ==
    LET headers == {position_file.headers[i] : i \in 1..Len(position_file.headers)}
    IN  (result = "list" /\ {"sph_theta", "sph_phi"} \subseteq headers) =>
            \A k \in 1..Len(position_file.rows) :
               /\ k <= Len(info_electrodes)
               /\ "sph_radius" \in DOMAIN info_electrodes[k]
               /\ IF "sph_radius" \in headers
                  THEN \E c \in 1..Len(position_file.headers) :
                          /\ position_file.headers[c] = "sph_radius"
                          /\ info_electrodes[k]["sph_radius"] = position_file.rows[k][c]
                  ELSE info_electrodes[k]["sph_radius"] = 1

C5_Witness ==
    /\ result = "list"
    /\ position_file.headers = <<"sph_theta", "sph_phi">>
    /\ Len(info_electrodes) = 2
    /\ \A k \in 1..2 : info_electrodes[k]["sph_radius"] = 1

\* C6: every image cropped was cropped to (L, T, width - R, height - D), and
\* a box of non-positive width or height ended the run with an exception
\* raised while compositing (the ImageError of the specification, whatever
\* the code names it) and without an output file.
C6_DegenerateCropRaisesImageError ==
    \A i \in 1..Len(crop_boxes) :
       LET c == crop_boxes[i]
       IN  /\ c.crop_box = <<crop_images[1], crop_images[2],
                             c.size_im[1] - crop_images[3],
                             c.size_im[2] - crop_images[4]>>
           /\ (c.crop_box[3] - c.crop_box[1] <= 0 \/ c.crop_box[4] - c.crop_box[2] <= 0) =>
                 /\ stage = "Aborted"
                 /\ error # ""
                 /\ failed_stage = "DrawMarkersAndImages"
                 /\ ~output_file.written

\* the integer a double n + residue truncates to
TowardZero(v) ==
    CASE v.n > 0 /\ v.e < 0 -> v.n - 1
      [] v.n < 0 /\ v.e > 0 -> v.n + 1
      [] OTHER -> v.n

\* C7: a paste box has its top-left corner at the truncated point minus half
\* the size and is as wide and as high as the image; with head_radius 1000
\* the canvas is 2500 x 2500 with centre (1250, 1250), and a single-pixel
\* image of a location at theta 0 (180), phi 0, radius 1 is pasted at pixel
\* (1250, 250) ((1250, 2250)).
C7_PasteBox ==
    /\ (head_radius_pxs = 1000 /\ stage \notin {"ParsePositions", "AllocateCanvas", "Aborted"}) =>
          canvas_size = <<2500, 2500>> /\ canvas_center = <<1250, 1250>>
    /\ \A k \in 1..Len(im.pastes) :
          LET p == im.pastes[k]
              d == info_electrodes[p.electrode]
              px == TowardZero(p.point_cart[1])
              py == TowardZero(p.point_cart[2])
          IN  /\ p.box[3] - p.box[1] = p.size[1]
              /\ p.box[4] - p.box[2] = p.size[2]
              /\ p.box[1] = px - p.size[1] \div 2
              /\ p.box[2] = py - p.size[2] \div 2
              /\ (head_radius_pxs = 1000 /\ p.size = <<1, 1>> /\ d["sph_phi"] = 0
                    /\ d["sph_radius"] = 1) =>
                    /\ d["sph_theta"] = 0 => p.box = <<1250, 250, 1251, 251>>
                    /\ d["sph_theta"] = 180 => p.box = <<1250, 2250, 1251, 2251>>

C7_Witness ==
    /\ stage = "Done"
    /\ head_radius_pxs = 1000
    /\ position_file.headers = <<"sph_theta", "sph_phi">>
    /\ position_file.rows = << <<0, 0>>, <<180, 0>> >>
    /\ Len(output_file.image.pastes) = 2
    /\ output_file.image.pastes[1].size = <<1, 1>>
    /\ output_file.image.pastes[1].box = <<1250, 250, 1251, 251>>
    /\ output_file.image.pastes[2].size = <<1, 1>>
    /\ output_file.image.pastes[2].box = <<1250, 2250, 1251, 2251>>

\* C8 as stated: pol2cart maps angle 0 to exactly centre + (0, -r) and angle
\* 90 to exactly centre + (r, 0), for every radius and centre.
C8_ExactProjection ==
    xy # <<>> =>
        /\ theta_radius[1] = 0 =>
              xy = <<Fl(centerxy[1], 0), Fl(centerxy[2] - theta_radius[2].n, 0)>>
        /\ theta_radius[1] = 90 =>
              xy = <<Fl(centerxy[1] + theta_radius[2].n, 0), Fl(centerxy[2], 0)>>

\* C8, amended: pol2cart maps angle 90 to exactly centre + (r, 0); it maps
\* angle 0 to a point whose y is exactly centre_y - r and whose x is
\* centre_x to within 2^-52 * max(|centre_x|, r) (22205 residue units times
\* that maximum), not exactly; it is defined on every input; and a call
\* changes neither its arguments nor the image.
C8_ProjectionWithinRounding ==
    /\ [](xy # <<>> =>
            /\ theta_radius[1] = 0 =>
                  /\ xy[2] = Fl(centerxy[2] - theta_radius[2].n, 0)
                  /\ xy[1].n = centerxy[1]
                  /\ xy[1].e <= 22205 * Max(Abs(centerxy[1]), theta_radius[2].n)
                  /\ xy[1].e >= -22205 * Max(Abs(centerxy[1]), theta_radius[2].n)
            /\ theta_radius[1] = 90 =>
                  xy = <<Fl(centerxy[1] + theta_radius[2].n, 0), Fl(centerxy[2], 0)>>)
    /\ [](xy = <<>> => ENABLED Project)
    /\ [][UNCHANGED <<theta_radius, centerxy, im>>]_vars

C8_Witness ==
    /\ theta_radius = <<0, Fl(1, 0)>>
    /\ centerxy = <<0, 0>>
    /\ xy = <<Fl(0, 6123), Fl(-1, 0)>>

\* C9: no file object is open once the call that opened it is over: none
\* after a stage, none after the run.
C9_HandlesReleased == open_files = {}

\* C10: every record returned of a file with a recognized column set has
\* theta, phi and radius, all records have the same fields, and the marker
\* and image loops find no field missing.
C10_AnglesDefined ==
    /\ result = "list" =>
          \A k \in 1..Len(info_electrodes) :
             /\ {"sph_theta", "sph_phi", "sph_radius"} \subseteq DOMAIN info_electrodes[k]
             /\ DOMAIN info_electrodes[k] = DOMAIN info_electrodes[1]
    /\ error # "KeyError"

=============================================================================
